---------------------------- MODULE Spec2Model ----------------------------
(***************************************************************************)
(* Career-Pulse-India: the mobile client of "Indian Career Roadmap".       *)
(*                                                                         *)
(* The module models the client's screens as state machines over the      *)
(* component state (React useState cells), the Credential Store           *)
(* (AsyncStorage) and the requests in flight.  A handler that awaits a     *)
(* network response is split at the await: the part before it is one       *)
(* action, each outcome of the response is another.  A handler keeps the   *)
(* values of the render it was created in (its closure); the model stores  *)
(* them in the request record.                                             *)
(*                                                                         *)
(*   Spec     the Roadmap Detail screen driven by its user interface       *)
(*   SpecOp   toggleStepCompletion applied as an operation, one call at a  *)
(*            time, to every argument                                      *)
(*   SpecApp  the session: landing, login, registration, stream selection  *)
(*            and dashboard screens over the Credential Store              *)
(*   SpecBoot the app start: the effects the screens run as they mount     *)
(*   SpecLogin, SpecStream, SpecDashboard                                  *)
(*            the login, stream selection and dashboard screens, each      *)
(*            mounted on its own over any Credential Store                 *)
(*   SpecScreens  every screen mounted on its own                          *)
(*   SpecDisplay  the Roadmap Detail screen of a roadmap of up to          *)
(*            MaxShownSteps steps, for the percentage it displays          *)
(*   SpecSubmit   the login screen opened from the landing page and left   *)
(*            by its back button, for the requests it has in flight        *)
(***************************************************************************)
EXTENDS Integers, Sequences, FiniteSets, Bags, TLC

\* ------------------------------------------------------------------ bounds
\* The largest number of steps of a roadmap.
MaxSteps == 3
\* The largest number of toggleStepCompletion calls in one visit of the screen.
MaxToggles == 3
\* The largest number of steps of a roadmap whose progress is displayed.
MaxShownSteps == 6
\* The largest number of checkbox presses while the displayed progress is
\* looked at.
MaxShownToggles == 2
\* The deepest navigation stack.
MaxStack == 3
\* The most session requests awaiting a response.
MaxRequests == 1
\* The most login requests awaiting a response: a login screen that is left
\* and opened again starts with its button enabled.
MaxLoginRequests == 2

\* null / undefined of an object-typed cell.
Null == [null |-> TRUE]
\* AsyncStorage.getItem of a missing key; also a string cell holding null.
NoValue == "null"
\* No Alert.alert was raised.
NoAlert == "none"

StepName == <<"s1", "s2", "s3", "s4", "s5", "s6", "s7", "s8">>
StepIds == {StepName[i] : i \in 1..MaxSteps}

\* The steps of a roadmap with n steps, in order.
RoadmapSteps(n) == [i \in 1..n |-> StepName[i]]
CareerRoadmap(n) == [steps |-> RoadmapSteps(n)]

Range(s) == {s[i] : i \in DOMAIN s}

\* ----------------------------------------------------------------- numbers
\* A JavaScript number that the progress arithmetic can produce: the exact
\* quotient num/den in lowest terms, or, for a zero divisor, NaN (0/0) and
\* Infinity (n/0, n > 0).
NaN == [num |-> 0, den |-> 0]
Infinity == [num |-> 1, den |-> 0]

RECURSIVE GCD(_, _)
GCD(a, b) == IF b = 0 THEN a ELSE GCD(b, a % b)

Quotient(n, d) ==
  IF d = 0 THEN (IF n = 0 THEN NaN ELSE Infinity)
  ELSE [num |-> n \div GCD(n, d), den |-> d \div GCD(n, d)]

Number(n) == [num |-> n, den |-> 1]
IsFinite(x) == x.den # 0
\* x <= y and x = y on finite numbers.
Leq(x, y) == x.num * y.den <= y.num * x.den

\* ------------------------------------------------------------------- state
VARIABLES
  auth_token,        \* Credential Store: 'auth_token'
  route,             \* the screen shown: "detail" or "login"
  roadmap,           \* RoadmapDetailScreen: useState roadmap
  userProgress,      \* RoadmapDetailScreen: useState userProgress
  loading,           \* RoadmapDetailScreen: useState loading
  updatingStep,      \* RoadmapDetailScreen: useState updatingStep
  inflight,          \* bag of POST /api/progress requests awaiting a response
  lastEvent,         \* the last handler step: its kind, its Alert, its step
  toggles,           \* the number of toggleStepCompletion calls so far
  applied,           \* the last two toggles that completed successfully:
                     \* step, target state and the local progress before
  serverSteps,       \* the server: the completed step ids it holds for the
                     \* user and the roadmap of the screen
  user_data,         \* Credential Store: 'user_data' (JSON text)
  stack,             \* the navigation stack of routes; the last one is shown
  effect,            \* the shown screen's useEffect on mount has not run yet
  acted,             \* the user has done something since the app started
  regForm,           \* RegisterScreen: name, email, password, confirmPassword
  regLoading,        \* RegisterScreen: useState loading
  dialog,            \* the Alert with a button handler that is open, if any
  net,               \* bag of the session's requests awaiting a response
  dashUser,          \* DashboardScreen: useState user
  dashLoading,       \* DashboardScreen: useState loading
  dashRoadmaps,      \* DashboardScreen: useState roadmaps
  dashProgress,      \* DashboardScreen: useState userProgress
  loginForm,         \* LoginScreen: email, password
  loginLoading,      \* LoginScreen: useState loading
  selectedStream,    \* StreamSelectionScreen: useState selectedStream
  streamLoading      \* StreamSelectionScreen: useState loading

detailOnly == <<route, roadmap, userProgress, loading, updatingStep, inflight,
                toggles, applied, serverSteps>>

registerOnly == <<regForm, regLoading>>
dashboardOnly == <<dashUser, dashLoading, dashRoadmaps, dashProgress>>
loginOnly == <<loginForm, loginLoading>>
streamOnly == <<selectedStream, streamLoading>>
otherScreens == <<loginOnly, streamOnly>>
navigation == <<stack, effect>>

appOnly == <<user_data, navigation, acted, registerOnly, dialog, net,
             dashboardOnly, otherScreens>>

vars == <<auth_token, lastEvent, detailOnly, appOnly>>

\* stepId: the step of the toggle the event belongs to, or NoValue; for the
\* end of a stream update, the stream selected on the screen at that moment.
Event(kind, alert, stepId) == [kind |-> kind, alert |-> alert, stepId |-> stepId]

\* ------------------------------------------------------------------ server
\* The exact quotient (len / total) * 100 as the client and the server
\* compute it.
Percentage(len, total) == Quotient(100 * len, total)

\* The elements of the sequence s that are in the set S, in the order of s.
Restrict(s, S) == SelectSeq(s, LAMBDA x : x \in S)

\* The UserProgress records the server can hold for a roadmap: completed_steps
\* is a set of the roadmap's step ids, progress_percentage derived from it.
ServerRecords(rm) ==
  {[user_id |-> "u1", career_id |-> "c1",
    completed_steps |-> Restrict(rm.steps, S),
    progress_percentage |-> Percentage(Cardinality(S), Len(rm.steps))] :
     S \in SUBSET Range(rm.steps)}

\* What the server holds for the roadmap id of the screen: the roadmap and the
\* user's record for it, or Null.  A record is created by the first toggle of
\* a step, so a roadmap without steps has none.
ServerStates ==
  {[rm |-> CareerRoadmap(n), up |-> Null] : n \in 0..MaxSteps}
  \cup
  UNION {{[rm |-> CareerRoadmap(n), up |-> r] :
            r \in ServerRecords(CareerRoadmap(n))} : n \in 1..MaxSteps}

\* The completed step ids of a record of the server; none without a record.
ServerSteps(up) == IF up = Null THEN {} ELSE Range(up.completed_steps)

\* POST /api/progress accepted: the server upserts the membership of the step.
ServerUpsert(steps, stepId, completed) ==
  IF completed THEN steps \cup {stepId} ELSE steps \ {stepId}

\* --------------------------------------------------- Roadmap Detail screen
\* The session's screens while the Roadmap Detail screen is looked at alone.
AppIdle ==
  /\ user_data = NoValue
  /\ stack = <<>>
  /\ effect = FALSE
  /\ acted = FALSE
  /\ regForm = Null
  /\ regLoading = FALSE
  /\ dialog = NoAlert
  /\ net = EmptyBag
  /\ dashUser = Null
  /\ dashLoading = TRUE
  /\ dashRoadmaps = <<>>
  /\ dashProgress = <<>>
  /\ loginForm = Null
  /\ loginLoading = FALSE
  /\ selectedStream = NoValue
  /\ streamLoading = FALSE

Init ==
  /\ AppIdle
  /\ auth_token \in {NoValue, "token"}
  /\ route = "detail"
  /\ roadmap = Null
  /\ userProgress = Null
  /\ loading = TRUE
  /\ updatingStep = NoValue
  /\ inflight = EmptyBag
  /\ lastEvent = Event("mount", NoAlert, NoValue)
  /\ toggles = 0
  /\ applied = <<>>
  /\ serverSteps = {}

\* The outcomes of an awaited fetch: a 2xx response, another response, or a
\* rejected promise (transport failure, or a body response.json() cannot read).
FetchOutcomes == {"ok", "notok", "throw"}

\* useEffect on mount -> fetchRoadmapData(): runs while the loading screen is
\* shown, so nothing interleaves with it.
fetchRoadmapData ==
  /\ route = "detail"
  /\ loading
  /\ loading' = FALSE
  /\ UNCHANGED <<auth_token, updatingStep, inflight, toggles, applied, appOnly>>
  /\ IF auth_token = NoValue
       THEN \E store \in {"read", "throw"} :
              /\ route' = IF store = "read" THEN "login" ELSE route
              /\ lastEvent' =
                   IF store = "read" THEN Event("load", NoAlert, NoValue)
                   ELSE Event("storeerror", "Failed to load roadmap data",
                              NoValue)
              /\ UNCHANGED <<roadmap, userProgress, serverSteps>>
       ELSE /\ route' = route
            /\ \E sv \in ServerStates, r1 \in FetchOutcomes, r2 \in FetchOutcomes :
                 /\ r2 = "ok" => sv.up # Null
                 /\ serverSteps' = ServerSteps(sv.up)
                 /\ roadmap' = IF r1 = "ok" THEN sv.rm ELSE roadmap
                 /\ userProgress' =
                      IF r1 # "throw" /\ r2 = "ok" THEN sv.up
                      ELSE userProgress
                 /\ lastEvent' =
                      IF r1 = "throw" \/ r2 = "throw"
                        THEN Event("load", "Failed to load roadmap data", NoValue)
                        ELSE Event("load", NoAlert, NoValue)

isStepCompleted(up, stepId) ==
  IF up = Null THEN FALSE ELSE stepId \in Range(up.completed_steps)

\* updatedSteps with a filter that drops nothing.
updatedSteps_keepAll(up, stepId, completed) ==
  IF completed THEN Append(up.completed_steps, stepId)
  ELSE up.completed_steps

\* completed ? [...completed_steps, stepId] : completed_steps.filter(s => s !== stepId)
updatedSteps(up, stepId, completed) ==
  IF completed THEN Append(up.completed_steps, stepId)
  ELSE SelectSeq(up.completed_steps, LAMBDA s : s # stepId)

\* totalSteps counting one step too many.
totalSteps_offByOne(rm) == IF rm = Null THEN 0 ELSE Len(rm.steps) + 1

\* roadmap?.steps.length || 0
totalSteps(rm) == IF rm = Null THEN 0 ELSE Len(rm.steps)

\* (updatedSteps.length / totalSteps) * 100
newProgress(steps, total) == Percentage(Len(steps), total)

\* The value handed to setUserProgress by a successful toggle.
nextUserProgress(up, rm, stepId, completed) ==
  [up EXCEPT !.completed_steps = updatedSteps(up, stepId, completed),
             !.progress_percentage =
                newProgress(updatedSteps(up, stepId, completed), totalSteps(rm))]

\* A POST /api/progress in flight, with the values its handler closed over.
Request(stepId, completed) ==
  [stepId |-> stepId, completed |-> completed,
   userProgress |-> userProgress, roadmap |-> roadmap]

LastTwo(s) == IF Len(s) <= 2 THEN s ELSE SubSeq(s, Len(s) - 1, Len(s))

\* toggleStepCompletion(stepId, completed) up to its fetch.
toggleStepCompletion(stepId, completed) ==
  /\ toggles' = toggles + 1
  /\ UNCHANGED <<auth_token, route, roadmap, userProgress, loading, applied,
                 serverSteps, appOnly>>
  /\ \E store \in {"read", "throw"} :
       IF store = "throw"
         THEN /\ updatingStep' = NoValue
              /\ inflight' = inflight
              /\ lastEvent' = Event("storeerror", "Network error occurred", stepId)
       ELSE IF auth_token = NoValue
         THEN /\ updatingStep' = NoValue
              /\ inflight' = inflight
              /\ lastEvent' = Event("notoken", "Authentication required", stepId)
       ELSE /\ updatingStep' = stepId
            /\ inflight' = inflight (+) SetToBag({Request(stepId, completed)})
            /\ lastEvent' = Event("send", NoAlert, stepId)

\* The local state after the response.ok branch of a request.
afterOk(req) ==
  IF req.userProgress # Null
    THEN nextUserProgress(req.userProgress, req.roadmap, req.stepId,
                          req.completed)
    ELSE userProgress

\* toggleStepCompletion after its fetch: response.ok.
toggleStepCompletionOk(req) ==
  /\ userProgress' = afterOk(req)
  /\ updatingStep' = NoValue
  /\ inflight' = inflight (-) SetToBag({req})
  /\ lastEvent' = Event("ok", NoAlert, req.stepId)
  /\ applied' = LastTwo(Append(applied,
                    [stepId |-> req.stepId, completed |-> req.completed,
                     before |-> userProgress]))
  /\ serverSteps' = ServerUpsert(serverSteps, req.stepId, req.completed)
  /\ UNCHANGED <<auth_token, route, roadmap, loading, toggles, appOnly>>

\* toggleStepCompletionNotOk applying the update although the response failed.
toggleStepCompletionNotOk_applies(req) ==
  /\ userProgress' = afterOk(req)
  /\ updatingStep' = NoValue
  /\ inflight' = inflight (-) SetToBag({req})
  /\ lastEvent' = Event("notok", "Failed to update progress", req.stepId)
  /\ UNCHANGED <<auth_token, route, roadmap, loading, toggles, applied,
                 serverSteps, appOnly>>

\* toggleStepCompletion after its fetch: a response that is not ok.
toggleStepCompletionNotOk(req) ==
  /\ updatingStep' = NoValue
  /\ inflight' = inflight (-) SetToBag({req})
  /\ lastEvent' = Event("notok", "Failed to update progress", req.stepId)
  /\ UNCHANGED <<auth_token, route, roadmap, userProgress, loading, toggles,
                 applied, serverSteps, appOnly>>

\* toggleStepCompletion after its fetch: the fetch rejected.
toggleStepCompletionThrow(req) ==
  /\ updatingStep' = NoValue
  /\ inflight' = inflight (-) SetToBag({req})
  /\ lastEvent' = Event("throw", "Network error occurred", req.stepId)
  /\ UNCHANGED <<auth_token, route, roadmap, userProgress, loading, toggles,
                 applied, serverSteps, appOnly>>

\* The step checkbox: onPress={() => toggleStepCompletion(step.id, !completed)},
\* disabled={isUpdating}; rendered for the steps of the loaded roadmap.
PressCheckbox(stepId) ==
  /\ route = "detail"
  /\ ~loading
  /\ roadmap # Null
  /\ stepId \in Range(roadmap.steps)
  /\ updatingStep # stepId
  /\ toggles < MaxToggles
  /\ toggleStepCompletion(stepId, ~isStepCompleted(userProgress, stepId))

Respond ==
  \E req \in BagToSet(inflight) :
    \/ toggleStepCompletionOk(req)
    \/ toggleStepCompletionNotOk(req)
    \/ toggleStepCompletionThrow(req)

Next ==
  \/ fetchRoadmapData
  \/ \E stepId \in StepIds : PressCheckbox(stepId)
  \/ Respond

Spec == Init /\ [][Next]_vars

\* ------------------------------------------- toggleStepCompletion, applied
\* The operation called with any step id and any target state in every state
\* the screen's load can leave, each call after the previous one has resolved.
CallToggle(stepId, completed) ==
  /\ ~loading
  /\ inflight = EmptyBag
  /\ toggles < MaxToggles
  /\ toggleStepCompletion(stepId, completed)

NextOp ==
  \/ fetchRoadmapData
  \/ \E stepId \in StepIds, completed \in BOOLEAN : CallToggle(stepId, completed)
  \/ Respond

SpecOp == Init /\ [][NextOp]_vars

\* ------------------------------------------------- the progress displayed
\* userProgress?.progress_percentage || 0: NaN and 0 are falsy.
progressPercentage(up) ==
  IF up = Null THEN Number(0)
  ELSE IF up.progress_percentage \in {NaN, Number(0)} THEN Number(0)
  ELSE up.progress_percentage

\* Math.floor in the place of Math.round.
MathRound_floor(x) == IF IsFinite(x) THEN Number(x.num \div x.den) ELSE x

\* Math.round of a number that is not negative: the integer nearest to it,
\* the upper one of two that are as near; Infinity stays Infinity.
MathRound(x) ==
  IF IsFinite(x) THEN Number((2 * x.num + x.den) \div (2 * x.den)) ELSE x

\* The text of the progress label, without its % sign.
Displayed(up) == MathRound(progressPercentage(up))

\* The Roadmap Detail screen as its load leaves it when both responses are
\* ok, for roadmaps of up to MaxShownSteps steps whose record has the first
\* steps completed.
InitDisplay ==
  /\ AppIdle
  /\ auth_token = "token"
  /\ route = "detail"
  /\ \E n \in 1..MaxShownSteps, k \in 0..MaxShownSteps :
       /\ k <= n
       /\ roadmap = CareerRoadmap(n)
       /\ userProgress =
            [user_id |-> "u1", career_id |-> "c1",
             completed_steps |-> RoadmapSteps(k),
             progress_percentage |-> Percentage(k, n)]
  /\ loading = FALSE
  /\ updatingStep = NoValue
  /\ inflight = EmptyBag
  /\ lastEvent = Event("load", NoAlert, NoValue)
  /\ toggles = 0
  /\ applied = <<>>
  /\ serverSteps = Range(userProgress.completed_steps)

NextDisplay ==
  \/ \E stepId \in Range(StepName) :
       toggles < MaxShownToggles /\ PressCheckbox(stepId)
  \/ Respond

SpecDisplay == InitDisplay /\ [][NextDisplay]_vars

\* ============================================================ the session
\* The Credential Store holds 'auth_token' (a string or nothing) and
\* 'user_data' (a JSON text or nothing).  A text is a sequence of
\* <<key, value>> pairs; no text is the empty sequence.
NoText == <<>>
Undefined == "undefined"

\* The keys of a user object in the order the server writes them.
UserKeys == <<"id", "name", "email", "selected_stream">>

\* JSON.stringify: the object's own keys, one pair each.
Stringify(obj) ==
  LET keys == SelectSeq(UserKeys, LAMBDA k : k \in DOMAIN obj)
  IN  [i \in 1..Len(keys) |-> <<keys[i], obj[keys[i]]>>]

\* JSON.parse: the object with the keys the text has.
Parse(text) ==
  [k \in {text[i][1] : i \in DOMAIN text} |->
     LET i == CHOOSE j \in DOMAIN text : text[j][1] = k IN text[i][2]]

\* obj.key: undefined when the object lacks the key.
Get(obj, key) == IF key \in DOMAIN obj THEN obj[key] ELSE Undefined

\* JavaScript truthiness of a string, null or undefined.
Present(v) == v \notin {NoValue, Undefined, ""}

\* The stream ids (index.tsx, streams).
StreamIds == {"Science", "Commerce", "Arts"}

\* What the form fields are typed from: one character at most.
Lower(c) == IF c = "A" THEN "a" ELSE c
toLowerCase(s) == [i \in DOMAIN s |-> Lower(s[i])]

RECURSIVE trim(_)
trim(s) ==
  IF s = <<>> THEN s
  ELSE IF Head(s) = " " THEN trim(Tail(s))
  ELSE IF s[Len(s)] = " " THEN trim(SubSeq(s, 1, Len(s) - 1))
  ELSE s

includes(s, c) == c \in Range(s)

NameInputs == {<<>>, <<"A">>, <<"A", "l">>, <<" ", "A", " ">>}
EmailInputs == {<<>>, <<"a", "b">>, <<"A", "@", "b">>}
PasswordInputs ==
  {<<>>, <<"p", "a", "s", "s", "1">>, <<"p", "a", "s", "s", "1", "2">>}

EmptyForm ==
  [name |-> <<>>, email |-> <<>>, password |-> <<>>, confirmPassword |-> <<>>]

EmptyLogin == [email |-> <<>>, password |-> <<>>]

\* ---------------------------------------------------------- server (session)
\* The user the server returns for a registration: no stream chosen yet.
RegisteredUser(body) ==
  [id |-> "u1", name |-> body.name, email |-> body.email,
   selected_stream |-> NoValue]

\* A user as an earlier session stored it.
StoredUser(stream) ==
  [id |-> "u1", name |-> <<"A", "l">>, email |-> <<"a", "@", "b">>,
   selected_stream |-> stream]

\* What earlier sessions can have left in the Credential Store.  The token
\* and the user are written and removed one after the other, so either can
\* be there without the other.
StoredUserData ==
  {NoText} \cup {Stringify(StoredUser(s)) : s \in {NoValue} \cup StreamIds}

\* GET /api/roadmaps?stream=: the roadmaps of a stream.
RoadmapIds == <<"c1", "c2", "c3">>
ServerRoadmaps(stream) ==
  LET ids == IF stream = "Science" THEN <<"c1", "c2">>
             ELSE IF stream = "Commerce" THEN <<"c3">>
             ELSE <<>>
  IN  [i \in 1..Len(ids) |-> [id |-> ids[i], stream |-> stream]]

\* GET /api/progress: the user's progress records, over all roadmaps.
ServerProgressLists ==
  {LET ids == SelectSeq(RoadmapIds, LAMBDA c : f[c] # Null)
   IN  [i \in 1..Len(ids) |->
          [career_id |-> ids[i], progress_percentage |-> f[ids[i]]]] :
   f \in [Range(RoadmapIds) -> {Null, Number(0), Number(50), Number(100)}]}

\* --------------------------------------------------------------- navigation
Top == stack[Len(stack)]
Shown(r) == stack # <<>> /\ Top = r

\* The screens whose component runs an effect when it mounts.
HasEffect(r) == r \in {"landing", "login", "dashboard"}

ReplaceTop(r) == [stack EXCEPT ![Len(stack)] = r]

\* The navigation stack becomes newStack.  mounted: its top is a new screen
\* instance, which starts from its initial state and runs its effect.  A screen
\* that is no longer on the stack is unmounted and loses its state.
Fresh(newStack, mounted, r) ==
  (mounted /\ newStack[Len(newStack)] = r) \/ r \notin Range(newStack)

NavigateLogin(newStack, mounted) ==
  /\ loginForm' = IF Fresh(newStack, mounted, "login") THEN EmptyLogin
                  ELSE loginForm
  /\ loginLoading' = IF Fresh(newStack, mounted, "login") THEN FALSE
                     ELSE loginLoading

NavigateStream(newStack, mounted) ==
  /\ selectedStream' = IF Fresh(newStack, mounted, "stream") THEN NoValue
                       ELSE selectedStream
  /\ streamLoading' = IF Fresh(newStack, mounted, "stream") THEN FALSE
                      ELSE streamLoading

NavigateBase(newStack, mounted) ==
  LET top == newStack[Len(newStack)]
      fresh(r) == Fresh(newStack, mounted, r)
  IN  /\ stack' = newStack
      /\ effect' = (mounted /\ HasEffect(top))
      /\ regForm' = IF fresh("register") THEN EmptyForm ELSE regForm
      /\ regLoading' = IF fresh("register") THEN FALSE ELSE regLoading
      /\ dashUser' = IF fresh("dashboard") THEN Null ELSE dashUser
      /\ dashLoading' = IF fresh("dashboard") THEN TRUE ELSE dashLoading
      /\ dashRoadmaps' = IF fresh("dashboard") THEN <<>> ELSE dashRoadmaps
      /\ dashProgress' = IF fresh("dashboard") THEN <<>> ELSE dashProgress

Navigate(newStack, mounted) ==
  /\ NavigateBase(newStack, mounted)
  /\ NavigateLogin(newStack, mounted)
  /\ NavigateStream(newStack, mounted)

\* The user can act on the shown screen r: its effect has run and no Alert
\* with a button handler is open.
CanPress(r) == Shown(r) /\ ~effect /\ dialog = NoAlert

StoreOutcomes == {"read", "throw"}

\* The screen r mounted on its own, over any contents of the Credential
\* Store.
MountedAlone(r) ==
  /\ auth_token \in {NoValue, "token"}
  /\ user_data \in StoredUserData
  /\ stack = <<r>>
  /\ effect = HasEffect(r)
  /\ acted = FALSE
  /\ regForm = EmptyForm
  /\ regLoading = FALSE
  /\ dialog = NoAlert
  /\ net = EmptyBag
  /\ dashUser = Null
  /\ dashLoading = TRUE
  /\ dashRoadmaps = <<>>
  /\ dashProgress = <<>>
  /\ loginForm = EmptyLogin
  /\ loginLoading = FALSE
  /\ selectedStream = NoValue
  /\ streamLoading = FALSE
  /\ route = "none"
  /\ roadmap = Null
  /\ userProgress = Null
  /\ loading = TRUE
  /\ updatingStep = NoValue
  /\ inflight = EmptyBag
  /\ toggles = 0
  /\ applied = <<>>
  /\ serverSteps = {}
  /\ lastEvent = Event("mount", NoAlert, NoValue)

InitApp ==
  /\ auth_token \in {NoValue, "token"}
  /\ user_data \in StoredUserData
  /\ stack = <<"landing">>
  /\ effect = TRUE
  /\ acted = FALSE
  /\ regForm = EmptyForm
  /\ regLoading = FALSE
  /\ dialog = NoAlert
  /\ net = EmptyBag
  /\ dashUser = Null
  /\ dashLoading = TRUE
  /\ dashRoadmaps = <<>>
  /\ dashProgress = <<>>
  /\ loginForm = EmptyLogin
  /\ loginLoading = FALSE
  /\ selectedStream = NoValue
  /\ streamLoading = FALSE
  /\ route = "none"
  /\ roadmap = Null
  /\ userProgress = Null
  /\ loading = TRUE
  /\ updatingStep = NoValue
  /\ inflight = EmptyBag
  /\ toggles = 0
  /\ applied = <<>>
  /\ serverSteps = {}
  /\ lastEvent = Event("mount", NoAlert, NoValue)

\* ------------------------------------------------------------- LandingPage
\* useEffect on mount: a token sends the user to the dashboard; a failing read
\* is logged and nothing else happens.
LandingPage_checkAuthStatus ==
  /\ Shown("landing")
  /\ effect
  /\ \E store \in StoreOutcomes :
       IF store = "read" /\ Present(auth_token)
       THEN /\ Navigate(ReplaceTop("dashboard"), TRUE)
            /\ lastEvent' = Event("checkAuthStatus", NoAlert, NoValue)
       ELSE /\ effect' = FALSE
            /\ lastEvent' = Event(IF store = "throw" THEN "storeerror"
                                  ELSE "checkAuthStatus", NoAlert, NoValue)
            /\ UNCHANGED <<stack, registerOnly, dashboardOnly, otherScreens>>
  /\ UNCHANGED <<auth_token, user_data, acted, dialog, net, detailOnly>>

\* 'Get Started' and 'Sign In' both push the login screen.
handleGetStarted ==
  /\ CanPress("landing")
  /\ Len(stack) < MaxStack
  /\ Navigate(Append(stack, "login"), TRUE)
  /\ acted' = TRUE
  /\ lastEvent' = Event("handleGetStarted", NoAlert, NoValue)
  /\ UNCHANGED <<auth_token, user_data, dialog, net, detailOnly>>

\* ------------------------------------------------------------- LoginScreen
LoginScreen_checkAuthStatus ==
  /\ Shown("login")
  /\ effect
  /\ \E store \in StoreOutcomes :
       IF store = "read" /\ Present(auth_token)
       THEN /\ Navigate(ReplaceTop("dashboard"), TRUE)
            /\ lastEvent' = Event("checkAuthStatus", NoAlert, NoValue)
       ELSE /\ effect' = FALSE
            /\ lastEvent' = Event(IF store = "throw" THEN "storeerror"
                                  ELSE "checkAuthStatus", NoAlert, NoValue)
            /\ UNCHANGED <<stack, registerOnly, dashboardOnly, otherScreens>>
  /\ UNCHANGED <<auth_token, user_data, acted, dialog, net, detailOnly>>

navigateToRegister ==
  /\ CanPress("login")
  /\ Len(stack) < MaxStack
  /\ Navigate(Append(stack, "register"), TRUE)
  /\ acted' = TRUE
  /\ lastEvent' = Event("navigateToRegister", NoAlert, NoValue)
  /\ UNCHANGED <<auth_token, user_data, dialog, net, detailOnly>>

\* router.back() on the login and on the register screen.
navigateBack ==
  /\ CanPress("login") \/ CanPress("register")
  /\ Len(stack) > 1
  /\ Navigate(SubSeq(stack, 1, Len(stack) - 1), FALSE)
  /\ acted' = TRUE
  /\ lastEvent' = Event("navigateBack", NoAlert, NoValue)
  /\ UNCHANGED <<auth_token, user_data, dialog, net, detailOnly>>

\* ----------------------------------------------------------- RegisterScreen
TypeRegister(form) ==
  /\ CanPress("register")
  /\ regForm' = form
  /\ acted' = TRUE
  /\ lastEvent' = Event("type", NoAlert, NoValue)
  /\ UNCHANGED <<auth_token, user_data, navigation, regLoading, dialog, net,
                 dashboardOnly, otherScreens, detailOnly>>

setName(v) == TypeRegister([regForm EXCEPT !.name = v])
setEmail(v) == TypeRegister([regForm EXCEPT !.email = v])
setPassword(v) == TypeRegister([regForm EXCEPT !.password = v])
setConfirmPassword(v) == TypeRegister([regForm EXCEPT !.confirmPassword = v])

\* validateForm with the password comparison left out.
validateForm_noPasswordMatch(form) ==
  IF form.name = <<>> \/ form.email = <<>> \/ form.password = <<>>
     \/ form.confirmPassword = <<>>
  THEN "Please fill in all fields"
  ELSE IF Len(form.name) < 2 THEN "Name must be at least 2 characters long"
  ELSE IF ~includes(form.email, "@") THEN "Please enter a valid email address"
  ELSE IF Len(form.password) < 6
  THEN "Password must be at least 6 characters long"
  ELSE NoAlert

\* validateForm: the Alert it raises, NoAlert when it returns true.
validateForm(form) ==
  IF form.name = <<>> \/ form.email = <<>> \/ form.password = <<>>
     \/ form.confirmPassword = <<>>
  THEN "Please fill in all fields"
  ELSE IF Len(form.name) < 2 THEN "Name must be at least 2 characters long"
  ELSE IF ~includes(form.email, "@") THEN "Please enter a valid email address"
  ELSE IF Len(form.password) < 6
  THEN "Password must be at least 6 characters long"
  ELSE IF form.password # form.confirmPassword THEN "Passwords do not match"
  ELSE NoAlert

\* The body of POST /api/auth/register.
RegisterBody(form) ==
  [name |-> trim(form.name), email |-> trim(toLowerCase(form.email)),
   password |-> form.password]

\* handleRegister up to its first await.  The button is disabled while
\* loading.
handleRegister ==
  /\ CanPress("register")
  /\ ~regLoading
  /\ acted' = TRUE
  /\ IF validateForm(regForm) # NoAlert
     THEN /\ lastEvent' = Event("handleRegister", validateForm(regForm), NoValue)
          /\ UNCHANGED <<regLoading, net>>
     ELSE /\ BagCardinality(net) < MaxRequests
          /\ regLoading' = TRUE
          /\ net' = net (+) SetToBag({[op |-> "register",
                                      body |-> RegisterBody(regForm)]})
          /\ lastEvent' = Event("handleRegister", NoAlert, NoValue)
  /\ UNCHANGED <<auth_token, user_data, navigation, regForm, dialog,
                 dashboardOnly, otherScreens, detailOnly>>

\* The response is ok: the token is stored, then the user, then the Alert
\* whose OK button leaves for the stream selection is shown.  A store write
\* that throws ends in the catch block.
\* handleRegister raising the success dialog whatever became of the writes.
handleRegisterOk_dialogFirst(req) ==
  /\ \E write \in {"stored", "first throws", "second throws"} :
       /\ auth_token' = IF write = "first throws" THEN auth_token ELSE "token"
       /\ user_data' = IF write = "stored"
                       THEN Stringify(RegisteredUser(req.body))
                       ELSE user_data
       /\ dialog' = "registered"
       /\ lastEvent' = Event("handleRegisterOk",
                             "Account created successfully!", NoValue)
  /\ regLoading' = FALSE
  /\ net' = net (-) SetToBag({req})
  /\ UNCHANGED <<navigation, acted, regForm, dashboardOnly, otherScreens, detailOnly>>

handleRegisterOk(req) ==
  /\ \E write \in {"stored", "first throws", "second throws"} :
       /\ auth_token' = IF write = "first throws" THEN auth_token ELSE "token"
       /\ user_data' = IF write = "stored"
                       THEN Stringify(RegisteredUser(req.body))
                       ELSE user_data
       /\ dialog' = IF write = "stored" THEN "registered" ELSE dialog
       /\ lastEvent' = IF write = "stored"
                       THEN Event("handleRegisterOk",
                                  "Account created successfully!", NoValue)
                       ELSE Event("handleRegisterCatch",
                                  "Network error. Please try again.", NoValue)
  /\ regLoading' = FALSE
  /\ net' = net (-) SetToBag({req})
  /\ UNCHANGED <<navigation, acted, regForm, dashboardOnly, otherScreens, detailOnly>>

handleRegisterNotOk(req) ==
  /\ regLoading' = FALSE
  /\ net' = net (-) SetToBag({req})
  /\ lastEvent' = Event("handleRegisterNotOk", "Registration Failed", NoValue)
  /\ UNCHANGED <<auth_token, user_data, navigation, acted, regForm, dialog,
                 dashboardOnly, otherScreens, detailOnly>>

\* fetch rejects or the response body is not JSON.
handleRegisterThrow(req) ==
  /\ regLoading' = FALSE
  /\ net' = net (-) SetToBag({req})
  /\ lastEvent' = Event("handleRegisterCatch",
                        "Network error. Please try again.", NoValue)
  /\ UNCHANGED <<auth_token, user_data, navigation, acted, regForm, dialog,
                 dashboardOnly, otherScreens, detailOnly>>

RegisterRespond ==
  \E req \in BagToSet(net) :
    /\ req.op = "register"
    /\ \/ handleRegisterOk(req)
       \/ handleRegisterNotOk(req)
       \/ handleRegisterThrow(req)

\* The OK button of the 'Success' Alert: router.replace('/stream-selection').
registerSuccessOk ==
  /\ dialog = "registered"
  /\ stack # <<>>
  /\ Navigate(ReplaceTop("stream"), TRUE)
  /\ dialog' = NoAlert
  /\ acted' = TRUE
  /\ lastEvent' = Event("registerSuccessOk", NoAlert, NoValue)
  /\ UNCHANGED <<auth_token, user_data, net, detailOnly>>

navigateToLogin ==
  /\ CanPress("register")
  /\ Len(stack) < MaxStack
  /\ Navigate(Append(stack, "login"), TRUE)
  /\ acted' = TRUE
  /\ lastEvent' = Event("navigateToLogin", NoAlert, NoValue)
  /\ UNCHANGED <<auth_token, user_data, dialog, net, detailOnly>>

\* ---------------------------------------------------------- DashboardScreen
\* The cached user has no stream: the dashboard hands over to the stream
\* selection.
needsStreamSelection_never(parsedUser) == FALSE

needsStreamSelection(parsedUser) == ~Present(Get(parsedUser, "selected_stream"))

\* fetchRoadmaps and fetchUserProgress keep what the screen has unless the
\* response is ok.
fetchRoadmaps(stream, outcome) ==
  IF outcome = "ok" THEN ServerRoadmaps(stream) ELSE dashRoadmaps

fetchUserProgress(list, outcome) ==
  IF outcome = "ok" THEN list ELSE dashProgress

\* useEffect on mount.
initializeData ==
  /\ Shown("dashboard")
  /\ effect
  /\ \E store \in StoreOutcomes :
       IF store = "throw"
       THEN /\ effect' = FALSE
            /\ dashLoading' = FALSE
            /\ lastEvent' = Event("storeerror", "Failed to load data", NoValue)
            /\ UNCHANGED <<stack, registerOnly, dashUser, dashRoadmaps,
                           dashProgress, otherScreens>>
       ELSE IF user_data = NoText \/ ~Present(auth_token)
       THEN /\ Navigate(ReplaceTop("login"), TRUE)
            /\ lastEvent' = Event("initializeData", NoAlert, NoValue)
       ELSE IF needsStreamSelection(Parse(user_data))
       THEN /\ Navigate(ReplaceTop("stream"), TRUE)
            /\ lastEvent' = Event("initializeData", NoAlert, NoValue)
       ELSE \E r1, r2 \in FetchOutcomes, list \in ServerProgressLists :
              /\ effect' = FALSE
              /\ dashUser' = Parse(user_data)
              /\ dashRoadmaps' =
                   fetchRoadmaps(Parse(user_data).selected_stream, r1)
              /\ dashProgress' = fetchUserProgress(list, r2)
              /\ dashLoading' = FALSE
              /\ lastEvent' = Event(IF r1 = "ok" /\ r2 = "ok"
                                    THEN "initializeData" ELSE "fetchFailed",
                                    NoAlert, NoValue)
              /\ UNCHANGED <<stack, registerOnly, otherScreens>>
  /\ UNCHANGED <<auth_token, user_data, acted, dialog, net, detailOnly>>

NextApp ==
  \/ LandingPage_checkAuthStatus
  \/ handleGetStarted
  \/ LoginScreen_checkAuthStatus
  \/ navigateToRegister
  \/ navigateBack
  \/ \E v \in NameInputs : setName(v)
  \/ \E v \in EmailInputs : setEmail(v)
  \/ \E v \in PasswordInputs : setPassword(v)
  \/ \E v \in PasswordInputs : setConfirmPassword(v)
  \/ handleRegister
  \/ RegisterRespond
  \/ registerSuccessOk
  \/ navigateToLogin
  \/ initializeData

SpecApp == InitApp /\ [][NextApp]_vars

\* The app start: the effects of the screens as they mount, before the user
\* does anything.  An effect runs once its screen has mounted: the reads it
\* awaits resolve or reject, and so do the fetches of the dashboard.
MountEffect ==
  \/ LandingPage_checkAuthStatus
  \/ LoginScreen_checkAuthStatus
  \/ initializeData

SpecBoot == InitApp /\ [][MountEffect]_vars /\ WF_vars(MountEffect)

\* ------------------------------------------------- LoginScreen, handleLogin
LoginPasswordInputs == {<<>>, <<"p", "a", "s", "s", "1", "2">>}

TypeLogin(form) ==
  /\ CanPress("login")
  /\ loginForm' = form
  /\ acted' = TRUE
  /\ lastEvent' = Event("type", NoAlert, NoValue)
  /\ UNCHANGED <<auth_token, user_data, navigation, loginLoading, dialog, net,
                 registerOnly, dashboardOnly, streamOnly, detailOnly>>

LoginScreen_setEmail(v) == TypeLogin([loginForm EXCEPT !.email = v])
LoginScreen_setPassword(v) == TypeLogin([loginForm EXCEPT !.password = v])

\* The checks handleLogin makes before it sends: the Alert, NoAlert when the
\* form passes.
loginValidation(form) ==
  IF form.email = <<>> \/ form.password = <<>> THEN "Please fill in all fields"
  ELSE IF ~includes(form.email, "@") THEN "Please enter a valid email address"
  ELSE NoAlert

\* The body of POST /api/auth/login.
LoginBody(form) ==
  [email |-> toLowerCase(form.email), password |-> form.password]

\* handleLogin up to its first await, with at most maxRequests requests
\* awaiting a response.  The button is disabled while loading.
handleLoginWithin(maxRequests) ==
  /\ CanPress("login")
  /\ ~loginLoading
  /\ acted' = TRUE
  /\ IF loginValidation(loginForm) # NoAlert
     THEN /\ lastEvent' =
               Event("handleLogin", loginValidation(loginForm), NoValue)
          /\ UNCHANGED <<loginLoading, net>>
     ELSE /\ BagCardinality(net) < maxRequests
          /\ loginLoading' = TRUE
          /\ net' = net (+) SetToBag({[op |-> "login",
                                      body |-> LoginBody(loginForm)]})
          /\ lastEvent' = Event("handleLogin", NoAlert, NoValue)
  /\ UNCHANGED <<auth_token, user_data, navigation, loginForm, dialog,
                 registerOnly, dashboardOnly, streamOnly, detailOnly>>

handleLogin == handleLoginWithin(MaxRequests)

\* The user the server returns for a login, with the stream it has for them.
LoginUser(body, stream) ==
  [id |-> "u1", name |-> <<"A", "l">>, email |-> body.email,
   selected_stream |-> stream]

\* Every screen goes to the dashboard after a login.
loginRoute_alwaysDashboard(user) == "dashboard"

\* Where a login leads: the dashboard for a user with a stream, the stream
\* selection otherwise.
loginRoute(user) ==
  IF Present(Get(user, "selected_stream")) THEN "dashboard" ELSE "stream"

\* The response is ok: the token is stored, then the user, then the screen is
\* replaced.  A store write that throws ends in the catch block.
handleLoginOk(req) ==
  /\ \E stream \in {NoValue} \cup StreamIds,
        write \in {"stored", "first throws", "second throws"} :
       LET user == LoginUser(req.body, stream)
           newStack == ReplaceTop(loginRoute(user))
       IN  /\ auth_token' = IF write = "first throws" THEN auth_token
                            ELSE "token"
           /\ user_data' = IF write = "stored" THEN Stringify(user)
                           ELSE user_data
           /\ IF write = "stored"
              THEN /\ NavigateBase(newStack, TRUE)
                   /\ NavigateStream(newStack, TRUE)
                   /\ loginForm' = IF Fresh(newStack, TRUE, "login")
                                   THEN EmptyLogin ELSE loginForm
                   /\ lastEvent' = Event("handleLoginOk", NoAlert, NoValue)
              ELSE /\ lastEvent' =
                        Event("handleLoginStoreError",
                              "Network error. Please try again.", NoValue)
                   /\ UNCHANGED <<navigation, registerOnly, dashboardOnly,
                                  streamOnly, loginForm>>
  /\ loginLoading' = FALSE
  /\ net' = net (-) SetToBag({req})
  /\ UNCHANGED <<acted, dialog, detailOnly>>

\* handleLogin on a response that is not ok, writing the token all the same.
handleLoginNotOk_persists(req) ==
  /\ loginLoading' = FALSE
  /\ net' = net (-) SetToBag({req})
  /\ auth_token' = "token"
  /\ lastEvent' = Event("handleLoginNotOk", "Login Failed", NoValue)
  /\ UNCHANGED <<user_data, navigation, acted, loginForm, dialog,
                 registerOnly, dashboardOnly, streamOnly, detailOnly>>

handleLoginNotOk(req) ==
  /\ loginLoading' = FALSE
  /\ net' = net (-) SetToBag({req})
  /\ lastEvent' = Event("handleLoginNotOk", "Login Failed", NoValue)
  /\ UNCHANGED <<auth_token, user_data, navigation, acted, loginForm, dialog,
                 registerOnly, dashboardOnly, streamOnly, detailOnly>>

\* fetch rejects or the response body is not JSON.
handleLoginThrow(req) ==
  /\ loginLoading' = FALSE
  /\ net' = net (-) SetToBag({req})
  /\ lastEvent' = Event("handleLoginThrow",
                        "Network error. Please try again.", NoValue)
  /\ UNCHANGED <<auth_token, user_data, navigation, acted, loginForm, dialog,
                 registerOnly, dashboardOnly, streamOnly, detailOnly>>

LoginRespond ==
  \E req \in BagToSet(net) :
    /\ req.op = "login"
    /\ \/ handleLoginOk(req)
       \/ handleLoginNotOk(req)
       \/ handleLoginThrow(req)

\* The login screen on its own.
NextLogin ==
  \/ LoginScreen_checkAuthStatus
  \/ \E v \in EmailInputs : LoginScreen_setEmail(v)
  \/ \E v \in LoginPasswordInputs : LoginScreen_setPassword(v)
  \/ handleLogin
  \/ LoginRespond

SpecLogin == MountedAlone("login") /\ [][NextLogin]_vars

\* The login screen reached from the landing page and left again by its back
\* button, with the dashboard a login leads to.
NextSubmit ==
  \/ LandingPage_checkAuthStatus
  \/ handleGetStarted
  \/ navigateBack
  \/ LoginScreen_checkAuthStatus
  \/ \E v \in EmailInputs : LoginScreen_setEmail(v)
  \/ \E v \in LoginPasswordInputs : LoginScreen_setPassword(v)
  \/ handleLoginWithin(MaxLoginRequests)
  \/ LoginRespond
  \/ initializeData

SpecSubmit == InitApp /\ [][NextSubmit]_vars

\* ---------------------------------------- StreamSelectionScreen, handleContinue
\* A stream card is pressed; the cards stay enabled while a request is out.
handleStreamSelect(streamId) ==
  /\ CanPress("stream")
  /\ selectedStream' = streamId
  /\ acted' = TRUE
  /\ lastEvent' = Event("handleStreamSelect", NoAlert, NoValue)
  /\ UNCHANGED <<auth_token, user_data, navigation, streamLoading, dialog, net,
                 registerOnly, dashboardOnly, loginOnly, detailOnly>>

\* handleContinue sending whatever is selected.
continueValidation_none(selected) == NoAlert

\* The check handleContinue makes first: the Alert, NoAlert when a stream is
\* selected.
continueValidation(selected) ==
  IF ~Present(selected) THEN "Please select a stream to continue" ELSE NoAlert

\* handleContinue going on without a token.
tokenMissing_never(token) == FALSE

tokenMissing(token) == ~Present(token)

\* The body of PUT /api/user/stream.
StreamBody(selected) == [stream |-> selected]

\* handleContinue up to its await fetch, called with the screen as it is.
handleContinue ==
  /\ CanPress("stream")
  /\ acted' = TRUE
  /\ IF continueValidation(selectedStream) # NoAlert
     THEN /\ lastEvent' = Event("handleContinue",
                                continueValidation(selectedStream), NoValue)
          /\ UNCHANGED <<navigation, net, registerOnly, dashboardOnly,
                         loginOnly, streamOnly>>
     ELSE \E read \in StoreOutcomes :
            IF read = "throw"
            THEN /\ streamLoading' = FALSE
                 /\ lastEvent' = Event("handleContinueCatch",
                                       "Network error. Please try again.",
                                       NoValue)
                 /\ UNCHANGED <<navigation, net, registerOnly, dashboardOnly,
                                loginOnly, selectedStream>>
            ELSE IF tokenMissing(auth_token)
            THEN LET newStack == ReplaceTop("login")
                 IN  /\ NavigateBase(newStack, TRUE)
                     /\ NavigateLogin(newStack, TRUE)
                     /\ selectedStream' =
                          IF Fresh(newStack, TRUE, "stream") THEN NoValue
                          ELSE selectedStream
                     /\ streamLoading' = FALSE
                     /\ lastEvent' = Event("handleContinueNoToken",
                                           "Authentication required", NoValue)
                     /\ UNCHANGED net
            ELSE /\ BagCardinality(net) < MaxRequests
                 /\ streamLoading' = TRUE
                 /\ net' = net (+) SetToBag({[op |-> "stream",
                                             body |-> StreamBody(selectedStream)]})
                 /\ lastEvent' = Event("handleContinue", NoAlert, NoValue)
                 /\ UNCHANGED <<navigation, registerOnly, dashboardOnly,
                                loginOnly, selectedStream>>
  /\ UNCHANGED <<auth_token, user_data, dialog, detailOnly>>

\* The cached user written back as it was read.
withStream_keeps(parsedUserData, selected) == parsedUserData

\* parsedUserData.selected_stream = selectedStream
withStream(parsedUserData, selected) ==
  [k \in DOMAIN parsedUserData \cup {"selected_stream"} |->
     IF k = "selected_stream" THEN selected ELSE parsedUserData[k]]

\* handleContinue writing the stream selected on the screen when the response
\* arrives.
handleContinueOk_writesSelection(req) ==
  /\ \E store \in {"done", "read throws", "write throws"} :
       /\ store = "write throws" => user_data # NoText
       /\ IF store = "done"
          THEN LET newStack == ReplaceTop("dashboard")
               IN  /\ user_data' =
                        IF user_data # NoText
                        THEN Stringify(withStream(Parse(user_data),
                                                  selectedStream))
                        ELSE user_data
                   /\ NavigateBase(newStack, TRUE)
                   /\ NavigateLogin(newStack, TRUE)
                   /\ selectedStream' =
                        IF Fresh(newStack, TRUE, "stream") THEN NoValue
                        ELSE selectedStream
                   /\ lastEvent' = Event("handleContinueOk", NoAlert,
                                         selectedStream)
          ELSE /\ lastEvent' = Event("handleContinueStoreError",
                                     "Network error. Please try again.",
                                     NoValue)
               /\ UNCHANGED <<user_data, navigation, registerOnly,
                              dashboardOnly, loginOnly, selectedStream>>
  /\ streamLoading' = FALSE
  /\ net' = net (-) SetToBag({req})
  /\ UNCHANGED <<auth_token, acted, dialog, detailOnly>>

\* The response is ok: the cached user, if there is one, is rewritten with the
\* stream of the call, then the screen is replaced by the dashboard.  A store
\* access that throws ends in the catch block.
handleContinueOk(req) ==
  /\ \E store \in {"done", "read throws", "write throws"} :
       /\ store = "write throws" => user_data # NoText
       /\ IF store = "done"
          THEN LET newStack == ReplaceTop("dashboard")
               IN  /\ user_data' =
                        IF user_data # NoText
                        THEN Stringify(withStream(Parse(user_data),
                                                  req.body.stream))
                        ELSE user_data
                   /\ NavigateBase(newStack, TRUE)
                   /\ NavigateLogin(newStack, TRUE)
                   /\ selectedStream' =
                        IF Fresh(newStack, TRUE, "stream") THEN NoValue
                        ELSE selectedStream
                   /\ lastEvent' = Event("handleContinueOk", NoAlert,
                                         selectedStream)
          ELSE /\ lastEvent' = Event("handleContinueStoreError",
                                     "Network error. Please try again.",
                                     NoValue)
               /\ UNCHANGED <<user_data, navigation, registerOnly,
                              dashboardOnly, loginOnly, selectedStream>>
  /\ streamLoading' = FALSE
  /\ net' = net (-) SetToBag({req})
  /\ UNCHANGED <<auth_token, acted, dialog, detailOnly>>

\* handleContinue on a response that is not ok, clearing the selection.
handleContinueNotOk_deselects(req) ==
  /\ streamLoading' = FALSE
  /\ selectedStream' = NoValue
  /\ net' = net (-) SetToBag({req})
  /\ lastEvent' = Event("handleContinueNotOk",
                        "Failed to update stream preference", NoValue)
  /\ UNCHANGED <<auth_token, user_data, navigation, acted, dialog,
                 registerOnly, dashboardOnly, loginOnly, detailOnly>>

handleContinueNotOk(req) ==
  /\ streamLoading' = FALSE
  /\ net' = net (-) SetToBag({req})
  /\ lastEvent' = Event("handleContinueNotOk",
                        "Failed to update stream preference", NoValue)
  /\ UNCHANGED <<auth_token, user_data, navigation, acted, selectedStream,
                 dialog, registerOnly, dashboardOnly, loginOnly, detailOnly>>

\* handleContinue sending its request again when the fetch rejects.
handleContinueThrow_retries(req) ==
  /\ lastEvent' = Event("handleContinueThrow",
                        "Network error. Please try again.", NoValue)
  /\ UNCHANGED <<auth_token, user_data, navigation, acted, streamOnly, net,
                 dialog, registerOnly, dashboardOnly, loginOnly, detailOnly>>

\* fetch rejects.
handleContinueThrow(req) ==
  /\ streamLoading' = FALSE
  /\ net' = net (-) SetToBag({req})
  /\ lastEvent' = Event("handleContinueThrow",
                        "Network error. Please try again.", NoValue)
  /\ UNCHANGED <<auth_token, user_data, navigation, acted, selectedStream,
                 dialog, registerOnly, dashboardOnly, loginOnly, detailOnly>>

ContinueRespond ==
  \E req \in BagToSet(net) :
    /\ req.op = "stream"
    /\ \/ handleContinueOk(req)
       \/ handleContinueNotOk(req)
       \/ handleContinueThrow(req)

\* The stream selection screen on its own, handleContinue called as an
\* operation: the Continue button, disabled without a selection and while
\* loading, is not what guards it.
NextStream ==
  \/ \E streamId \in StreamIds : handleStreamSelect(streamId)
  \/ handleContinue
  \/ ContinueRespond

SpecStream == MountedAlone("stream") /\ [][NextStream]_vars

\* ----------------------------------------------- DashboardScreen, rendering
\* roadmaps.length
statTotal == Len(dashRoadmaps)

\* userProgress.filter(p => p.progress_percentage > 0).length
statStarted ==
  Len(SelectSeq(dashProgress,
                LAMBDA p : ~Leq(p.progress_percentage, Number(0))))

\* userProgress.filter(p => p.progress_percentage === 100).length
statCompleted ==
  Len(SelectSeq(dashProgress, LAMBDA p : p.progress_percentage = Number(100)))

\* The card showing the first record of the list whatever its roadmap.
getProgressForRoadmap_first(roadmapId) ==
  IF dashProgress = <<>> THEN Number(0)
  ELSE progressPercentage(dashProgress[1])

\* userProgress.find(p => p.career_id === roadmapId)?.progress_percentage || 0
getProgressForRoadmap(roadmapId) ==
  LET found == SelectSeq(dashProgress, LAMBDA p : p.career_id = roadmapId)
  IN  IF found = <<>> THEN Number(0) ELSE progressPercentage(found[1])

\* ------------------------------------------------ DashboardScreen, handleLogout
\* The logout button of the loaded dashboard raises the confirmation dialog.
handleLogout ==
  /\ CanPress("dashboard")
  /\ ~dashLoading
  /\ dialog' = "logout"
  /\ acted' = TRUE
  /\ lastEvent' = Event("handleLogout", "Are you sure you want to logout?",
                        NoValue)
  /\ UNCHANGED <<auth_token, user_data, navigation, net, registerOnly,
                 dashboardOnly, otherScreens, detailOnly>>

\* The Cancel button of the dialog.
handleLogoutCancel ==
  /\ dialog = "logout"
  /\ dialog' = NoAlert
  /\ lastEvent' = Event("handleLogoutCancel", NoAlert, NoValue)
  /\ UNCHANGED <<auth_token, user_data, navigation, acted, net, registerOnly,
                 dashboardOnly, otherScreens, detailOnly>>

\* The Logout button navigating once the token alone is removed.
handleLogoutOnPress_keepsUser ==
  /\ dialog = "logout"
  /\ stack # <<>>
  /\ dialog' = NoAlert
  /\ auth_token' = NoValue
  /\ Navigate(ReplaceTop("landing"), TRUE)
  /\ lastEvent' = Event("handleLogoutOnPress", NoAlert, NoValue)
  /\ UNCHANGED <<user_data, acted, net, detailOnly>>

\* The Logout button of the dialog: auth_token is removed, then user_data,
\* then the screen is replaced by the landing page.  The handler has no
\* try/catch: a removal that rejects ends it there, with nothing shown.
handleLogoutOnPress ==
  /\ dialog = "logout"
  /\ stack # <<>>
  /\ dialog' = NoAlert
  /\ \E remove \in {"removed", "first throws", "second throws"} :
       /\ auth_token' = IF remove = "first throws" THEN auth_token ELSE NoValue
       /\ user_data' = IF remove = "removed" THEN NoText ELSE user_data
       /\ IF remove = "removed"
          THEN /\ Navigate(ReplaceTop("landing"), TRUE)
               /\ lastEvent' = Event("handleLogoutOnPress", NoAlert, NoValue)
          ELSE /\ lastEvent' = Event("handleLogoutRejected", NoAlert, NoValue)
               /\ UNCHANGED <<navigation, registerOnly, dashboardOnly,
                              otherScreens>>
  /\ UNCHANGED <<acted, net, detailOnly>>

\* The dashboard on its own, with the screens it hands over to.
NextDashboard ==
  \/ initializeData
  \/ handleLogout
  \/ handleLogoutCancel
  \/ handleLogoutOnPress
  \/ LandingPage_checkAuthStatus
  \/ LoginScreen_checkAuthStatus

SpecDashboard == MountedAlone("dashboard") /\ [][NextDashboard]_vars

\* ---------------------------------------------------------- every screen
\* A resource link of a step is pressed.  canOpenURL answers or rejects, and
\* so does openURL; openResource has no try/catch, so a rejection leaves it
\* with nothing shown.
openResource ==
  /\ route = "detail"
  /\ ~loading
  /\ roadmap # Null
  /\ roadmap.steps # <<>>
  /\ \E outcome \in {"opened", "unsupported", "rejects"} :
       lastEvent' =
         IF outcome = "opened" THEN Event("openResource", NoAlert, NoValue)
         ELSE IF outcome = "unsupported"
         THEN Event("openResourceUnsupported", "Cannot open this resource",
                    NoValue)
         ELSE Event("openResourceRejected", NoAlert, NoValue)
  /\ UNCHANGED <<auth_token, detailOnly, appOnly>>

\* Every screen that sends requests, each mounted on its own: the roadmap
\* detail screen, the login, register and stream selection screens and the
\* dashboard, with the screens they hand over to.
InitScreens ==
  \/ Init
  \/ \E r \in {"login", "register", "stream", "dashboard"} : MountedAlone(r)

RegisterScreen ==
  \/ \E v \in NameInputs : setName(v)
  \/ \E v \in EmailInputs : setEmail(v)
  \/ \E v \in PasswordInputs : setPassword(v)
  \/ \E v \in PasswordInputs : setConfirmPassword(v)
  \/ handleRegister
  \/ RegisterRespond
  \/ registerSuccessOk

NextScreens ==
  \/ Next
  \/ openResource
  \/ NextLogin
  \/ RegisterScreen
  \/ NextStream
  \/ NextDashboard

SpecScreens == InitScreens /\ [][NextScreens]_vars

\* ================================================================== claims
CompletedSet(up) == Range(up.completed_steps)

\* The requests in flight for one step.
InflightFor(stepId) == {r \in BagToSet(inflight) : r.stepId = stepId}

\* C1: while a toggle request for a step is in flight, no second toggle
\* request for the same step is in flight, whatever other steps were pressed in
\* between.
C1_OneRequestPerStep ==
  \A r \in BagToSet(inflight) :
    /\ CopiesIn(r, inflight) = 1
    /\ InflightFor(r.stepId) = {r}

\* C2: when the toggles of two different steps were both in flight and both
\* succeed, the second completion changes the membership of its own step only
\* (the change made by the first completion is kept).
C2_CompletionKeepsOtherSteps ==
  [][(/\ lastEvent.kind = "ok"
      /\ lastEvent'.kind = "ok"
      /\ lastEvent.stepId # lastEvent'.stepId
      /\ userProgress # Null)
     => \A s \in StepIds \ {lastEvent'.stepId} :
          isStepCompleted(userProgress', s) = isStepCompleted(userProgress, s)]_vars

\* C3: after a successful toggle on a loaded roadmap, progress_percentage is
\* (number of distinct completed step ids / number of steps) * 100.
C3_PercentageMatchesSteps ==
  (lastEvent.kind = "ok" /\ roadmap # Null /\ userProgress # Null)
    => userProgress.progress_percentage =
         Percentage(Cardinality(CompletedSet(userProgress)), Len(roadmap.steps))

\* C4: a toggle whose request fails (a response that is not ok, or a rejected
\* fetch) leaves the local progress as it was, raises an Alert and sends
\* nothing; a request is only ever sent by a toggleStepCompletion call.
C4_FailureChangesNothing ==
  [][/\ lastEvent'.kind \in {"notok", "throw"} =>
          /\ userProgress' = userProgress
          /\ lastEvent'.alert # NoAlert
          /\ BagCardinality(inflight') = BagCardinality(inflight) - 1
     /\ BagCardinality(inflight') > BagCardinality(inflight) =>
          /\ lastEvent'.kind = "send"
          /\ toggles' = toggles + 1]_vars

C4_Witness ==
  /\ lastEvent.kind \in {"notok", "throw"}
  /\ userProgress # Null
  /\ inflight # EmptyBag

\* The last two successful toggles were toggle(id, first) and then
\* toggle(id, second) of one step, on a local progress record.
AppliedTwice(first, second) ==
  /\ Len(applied) = 2
  /\ applied[1].stepId = applied[2].stepId
  /\ applied[1].completed = first
  /\ applied[2].completed = second
  /\ applied[1].before # Null
  /\ applied[2].before # Null
  /\ userProgress # Null

\* C5: toggleStep(id, true) applied successfully twice leaves completed_steps
\* and progress_percentage as they were after the first application.
C5_ToggleTrueIdempotent ==
  AppliedTwice(TRUE, TRUE) =>
    /\ userProgress.completed_steps = applied[2].before.completed_steps
    /\ userProgress.progress_percentage = applied[2].before.progress_percentage

\* C6, as claimed: after toggleStep(id, true) and then toggleStep(id, false)
\* succeed, completed_steps is what it was before the first, for every step id
\* and every starting progress.
C6_RoundTripEveryStart ==
  AppliedTwice(TRUE, FALSE) =>
    userProgress.completed_steps = applied[1].before.completed_steps

\* C6, amended: the same for every step id that is not completed in the
\* starting progress.
C6_RoundTripFromNotCompleted ==
  (/\ AppliedTwice(TRUE, FALSE)
   /\ ~isStepCompleted(applied[1].before, applied[1].stepId))
    => userProgress.completed_steps = applied[1].before.completed_steps

C6_Witness ==
  /\ AppliedTwice(TRUE, FALSE)
  /\ ~isStepCompleted(applied[1].before, applied[1].stepId)
  /\ applied[1].before.completed_steps # <<>>
  /\ lastEvent.kind = "ok"

\* C7: on the Roadmap Detail screen the local progress_percentage lies in
\* 0..100, and is 100 exactly when completed_steps covers every step id of the
\* loaded roadmap.
C7_PercentageInRange ==
  (route = "detail" /\ roadmap # Null /\ userProgress # Null)
    => /\ IsFinite(userProgress.progress_percentage)
       /\ Leq(Number(0), userProgress.progress_percentage)
       /\ Leq(userProgress.progress_percentage, Number(100))
       /\ (userProgress.progress_percentage = Number(100))
            <=> (Range(roadmap.steps) \subseteq CompletedSet(userProgress))

C7_Witness ==
  /\ route = "detail"
  /\ roadmap # Null
  /\ userProgress # Null
  /\ lastEvent.kind = "ok"
  /\ userProgress.progress_percentage = Number(100)
  /\ Len(roadmap.steps) = MaxSteps

\* C8: when a successful toggle recomputes the percentage and the total number
\* of steps is zero, progress_percentage is set to 0.
C8_ZeroStepsGivesZero ==
  (lastEvent.kind = "ok" /\ userProgress # Null /\ totalSteps(roadmap) = 0)
    => userProgress.progress_percentage = Number(0)

CachedStream == Get(Parse(user_data), "selected_stream")

\* The start is over: no effect is left to run and the user has not acted yet.
BootSettled == stack # <<>> /\ ~acted /\ ~effect

\* The screen the start has settled on, when the reads of the Credential Store
\* succeeded.
BootSettledRight ==
  (BootSettled /\ lastEvent.kind # "storeerror") =>
    /\ auth_token = NoValue => Top = "landing"
    /\ (auth_token # NoValue /\ user_data # NoText /\ CachedStream = NoValue)
         => Top = "stream"
    /\ (auth_token # NoValue /\ user_data # NoText /\ CachedStream \in StreamIds)
         => Top = "dashboard"

\* C9: the app start settles when the Credential Store holds no token or
\* holds a token and a cached user, and once it has settled, the reads of the
\* store having succeeded, the shown screen is the landing screen if the store
\* holds no token, the stream selection if it holds a token and a cached user
\* without a selected_stream, and the dashboard if it holds a token and a
\* cached user with a selected_stream.
C9_BootstrapSettles ==
  /\ []BootSettledRight
  /\ (stack # <<>> /\ (auth_token = NoValue \/ user_data # NoText))
       => <>BootSettled

\* The start has settled on the stream selection, by way of the dashboard.
C9_Witness ==
  /\ stack = <<"stream">>
  /\ ~acted
  /\ ~effect
  /\ auth_token # NoValue
  /\ user_data # NoText
  /\ lastEvent.kind = "initializeData"

\* A form fails the local validation as the specification words it.
FailsValidation(form) ==
  \/ form.name = <<>>
  \/ form.email = <<>>
  \/ form.password = <<>>
  \/ form.confirmPassword = <<>>
  \/ Len(form.name) < 2
  \/ "@" \notin Range(form.email)
  \/ Len(form.password) < 6
  \/ form.password # form.confirmPassword

\* C10: a press of the register button on a form that fails the local
\* validation sends no request and leaves the Credential Store as it is.
C10_InvalidRegisterSendsNothing ==
  [][(lastEvent'.kind = "handleRegister" /\ FailsValidation(regForm))
       => (net' = net /\ auth_token' = auth_token /\ user_data' = user_data)]_vars

\* The register button was pressed on a form whose passwords differ.
C10_Witness ==
  /\ lastEvent.kind = "handleRegister"
  /\ lastEvent.alert = "Passwords do not match"
  /\ Len(regForm.password) >= 6
  /\ regForm.password # regForm.confirmPassword
  /\ net = EmptyBag

\* C11: a login that fails, by a response that is not ok or by a rejected
\* fetch, raises an Alert, writes neither auth_token nor user_data and leaves
\* the shown screen as it is.
C11_FailedLoginPersistsNothing ==
  [][lastEvent'.kind \in {"handleLoginNotOk", "handleLoginThrow"} =>
       /\ lastEvent'.alert # NoAlert
       /\ auth_token' = auth_token
       /\ user_data' = user_data
       /\ stack' = stack]_vars

\* A login was rejected with nothing in the Credential Store.
C11_Witness ==
  /\ lastEvent.kind = "handleLoginNotOk"
  /\ Shown("login")
  /\ auth_token = NoValue
  /\ user_data = NoText

\* C12: a login response handler that leaves the login screen has stored the
\* token and the user the server returned for the request, and it leaves for
\* the dashboard if that user has a selected_stream and for the stream
\* selection otherwise; a successful login does leave.
C12_LoginPersistsThenRoutes ==
  [][/\ lastEvent'.kind = "handleLoginOk" =>
          /\ stack' # stack
          /\ auth_token' # NoValue
          /\ user_data' # NoText
          /\ \E req \in BagToSet(net) :
                /\ req.op = "login"
                /\ net' = net (-) SetToBag({req})
                /\ Get(Parse(user_data'), "email") = req.body.email
          /\ stack'[Len(stack')] =
               IF Get(Parse(user_data'), "selected_stream") \in StreamIds
               THEN "dashboard" ELSE "stream"
     /\ lastEvent'.kind \in {"handleLoginStoreError", "handleLoginNotOk",
                             "handleLoginThrow"} => stack' = stack]_vars

\* A login has led to the stream selection.
C12_Witness ==
  /\ lastEvent.kind = "handleLoginOk"
  /\ Shown("stream")
  /\ auth_token # NoValue
  /\ user_data # NoText
  /\ Get(Parse(user_data), "selected_stream") = NoValue

\* C13: a registration leaves the register screen only by the OK button of
\* its success dialog; the dialog is raised with the token and the user of the
\* request in the Credential Store, they are still there when OK is pressed,
\* and the screen that follows is always the stream selection.
C13_RegisterPersistsThenRoutes ==
  [][/\ lastEvent'.kind = "handleRegisterOk" =>
          /\ auth_token' # NoValue
          /\ \E req \in BagToSet(net) :
                /\ req.op = "register"
                /\ user_data' = Stringify(RegisteredUser(req.body))
          /\ stack' = stack
     /\ lastEvent'.kind \in {"handleRegisterNotOk", "handleRegisterCatch"} =>
          stack' = stack /\ dialog' = dialog
     /\ lastEvent'.kind = "registerSuccessOk" =>
          /\ auth_token # NoValue /\ auth_token' = auth_token
          /\ user_data # NoText /\ user_data' = user_data
          /\ stack'[Len(stack')] = "stream"]_vars

\* The OK of the success dialog has led to the stream selection.
C13_Witness ==
  /\ lastEvent.kind = "registerSuccessOk"
  /\ Shown("stream")
  /\ auth_token # NoValue
  /\ user_data # NoText

\* C14: handleContinue called with no stream selected raises the validation
\* Alert, sends no request and leaves the Credential Store, the selection and
\* the shown screen as they were.
C14_NoSelectionSendsNothing ==
  [][(lastEvent'.kind \in {"handleContinue", "handleContinueNoToken",
                           "handleContinueCatch"}
      /\ selectedStream = NoValue) =>
       /\ lastEvent'.alert = "Please select a stream to continue"
       /\ net' = net
       /\ auth_token' = auth_token
       /\ user_data' = user_data
       /\ stack' = stack
       /\ streamOnly' = streamOnly]_vars

\* handleContinue was called with nothing selected.
C14_Witness ==
  /\ lastEvent = Event("handleContinue", "Please select a stream to continue",
                       NoValue)
  /\ Shown("stream")
  /\ selectedStream = NoValue

\* C15: handleContinue called with a stream selected and no token in the
\* Credential Store (the read returning null) sends no request and replaces
\* the screen by the login screen.
C15_NoTokenRoutesToLogin ==
  [][(lastEvent'.kind \in {"handleContinue", "handleContinueNoToken"}
      /\ selectedStream # NoValue
      /\ auth_token = NoValue) =>
       /\ net' = net
       /\ stack # <<>>
       /\ stack' = ReplaceTop("login")
       /\ lastEvent'.alert = "Authentication required"]_vars

\* handleContinue found no token and the login screen is shown.
C15_Witness ==
  /\ lastEvent.kind = "handleContinueNoToken"
  /\ Shown("login")
  /\ auth_token = NoValue
  /\ net = EmptyBag

\* C16: when the stream update succeeds with a user cached, the cached user
\* is rewritten with selected_stream the stream the request carried and with
\* id, name and email as they were, and the step that shows the dashboard is
\* the one that has made that write; a handler that failed to write does not
\* navigate.
C16_StreamSuccessRewritesUser ==
  [][/\ (lastEvent'.kind = "handleContinueOk" /\ user_data # NoText) =>
          /\ \E req \in BagToSet(net) :
                /\ req.op = "stream"
                /\ net' = net (-) SetToBag({req})
                /\ Get(Parse(user_data'), "selected_stream") = req.body.stream
          /\ \A k \in {"id", "name", "email"} :
                Get(Parse(user_data'), k) = Get(Parse(user_data), k)
          /\ DOMAIN Parse(user_data') = DOMAIN Parse(user_data)
          /\ stack'[Len(stack')] = "dashboard"
     /\ lastEvent'.kind = "handleContinueStoreError" =>
          stack' = stack /\ user_data' = user_data]_vars

\* A stream update has rewritten a cached user that had another stream.
C16_Witness ==
  /\ lastEvent.kind = "handleContinueOk"
  /\ Shown("dashboard")
  /\ user_data # NoText
  /\ Get(Parse(user_data), "selected_stream") = "Commerce"
  /\ Get(Parse(user_data), "email") = <<"a", "@", "b">>

\* C17: a stream update that fails, by a response that is not ok or by a
\* rejected fetch, raises an Alert and leaves auth_token, user_data, the
\* selection and the shown screen as they were.
C17_StreamFailureChangesNothing ==
  [][lastEvent'.kind \in {"handleContinueNotOk", "handleContinueThrow"} =>
       /\ lastEvent'.alert # NoAlert
       /\ auth_token' = auth_token
       /\ user_data' = user_data
       /\ selectedStream' = selectedStream
       /\ stack' = stack]_vars

\* A stream update was refused and the selection is still there.
C17_Witness ==
  /\ lastEvent.kind = "handleContinueNotOk"
  /\ Shown("stream")
  /\ selectedStream = "Arts"
  /\ ~streamLoading

\* C18: a confirmed logout that runs to its end leaves neither auth_token nor
\* user_data in the Credential Store and shows the landing page; a logout
\* step that changes the shown screen has removed both, and one that has not
\* removed both does not navigate.
C18_LogoutRemovesThenRoutes ==
  [][/\ lastEvent'.kind = "handleLogoutOnPress" =>
          /\ auth_token' = NoValue
          /\ user_data' = NoText
          /\ stack # <<>>
          /\ stack' = ReplaceTop("landing")
     /\ lastEvent'.kind \in {"handleLogout", "handleLogoutCancel",
                             "handleLogoutRejected"} => stack' = stack]_vars

\* A logout has removed a token and a user and shows the landing page.
C18_Witness ==
  /\ lastEvent.kind = "handleLogoutOnPress"
  /\ Shown("landing")
  /\ auth_token = NoValue
  /\ user_data = NoText

\* C19: a request is sent only by the step of a user action (handleLogin,
\* handleRegister, handleContinue, toggleStepCompletion), one request per
\* step; the step that handles a failed response takes its request off the
\* network and sends nothing; the loads (initializeData, fetchRoadmapData)
\* run only as the pending effect of a mount and end it.
C19_NoAutomaticResend ==
  [][/\ BagCardinality(net') > BagCardinality(net) =>
          /\ lastEvent'.kind \in {"handleLogin", "handleRegister",
                                  "handleContinue"}
          /\ BagCardinality(net') = BagCardinality(net) + 1
          /\ inflight' = inflight
     /\ BagCardinality(inflight') > BagCardinality(inflight) =>
          /\ lastEvent'.kind = "send"
          /\ toggles' = toggles + 1
          /\ BagCardinality(inflight') = BagCardinality(inflight) + 1
          /\ net' = net
     /\ lastEvent'.kind \in {"handleLoginNotOk", "handleLoginThrow",
                             "handleRegisterNotOk", "handleRegisterCatch",
                             "handleContinueNotOk", "handleContinueThrow"} =>
          /\ BagCardinality(net') = BagCardinality(net) - 1
          /\ inflight' = inflight
     /\ lastEvent'.kind \in {"notok", "throw"} =>
          /\ BagCardinality(inflight') = BagCardinality(inflight) - 1
          /\ net' = net
     /\ lastEvent'.kind = "load" => loading /\ ~loading'
     /\ lastEvent'.kind \in {"initializeData", "fetchFailed"} =>
          effect /\ (~effect' \/ stack' # stack)]_vars

\* A stream update has failed and nothing is on the network.
C19_Witness ==
  /\ lastEvent.kind = "handleContinueThrow"
  /\ Shown("stream")
  /\ selectedStream # NoValue
  /\ net = EmptyBag
  /\ inflight = EmptyBag

\* The events that end an operation in a failure: a response that is not ok,
\* a rejected fetch, a store access that throws, a resource that cannot be
\* opened.
FailureKinds ==
  {"storeerror", "notok", "throw", "notoken",
   "handleLoginNotOk", "handleLoginThrow", "handleLoginStoreError",
   "handleRegisterNotOk", "handleRegisterCatch",
   "handleContinueNotOk", "handleContinueThrow", "handleContinueCatch",
   "handleContinueStoreError", "handleContinueNoToken",
   "fetchFailed", "handleLogoutRejected",
   "openResourceUnsupported", "openResourceRejected"}

\* C20: every failure of an operation ends in a notice the user sees.
C20_EveryFailureNoticed ==
  [][lastEvent'.kind \in FailureKinds => lastEvent'.alert # NoAlert]_vars

\* C21: a token-requiring operation of the Roadmap Detail screen (the load,
\* toggleStepCompletion) that reads the Credential Store and finds no token
\* sends no request and shows the login screen.
C21_NoTokenRedirectsToLogin ==
  [][(lastEvent'.kind \in {"load", "notoken"} /\ auth_token = NoValue) =>
       /\ inflight' = inflight
       /\ route' = "login"]_vars

\* C22: with a roadmap of n steps and a local record in which k of them are
\* completed, the progress label shows 100 * k / n rounded to the nearest
\* integer: 17 for 1 of 6.
C22_DisplayedIsRounded ==
  (route = "detail" /\ roadmap # Null /\ userProgress # Null) =>
    LET n == Len(roadmap.steps)
        k == Cardinality(CompletedSet(userProgress))
    IN  \E d \in 0..100 :
          /\ Displayed(userProgress) = Number(d)
          /\ 2 * n * d - n <= 200 * k
          /\ 200 * k < 2 * n * d + n

\* One of six steps has been completed by a toggle and the label shows 17.
C22_Witness ==
  /\ route = "detail"
  /\ roadmap # Null
  /\ userProgress # Null
  /\ lastEvent.kind = "ok"
  /\ Len(roadmap.steps) = 6
  /\ Cardinality(CompletedSet(userProgress)) = 1
  /\ Displayed(userProgress) = Number(17)

\* C23: once every toggle issued on the loaded screen has resolved, the
\* completed_steps of the local record are the completed steps the server
\* holds for the user and the roadmap.
C23_LocalEqualsServer ==
  (/\ route = "detail"
   /\ roadmap # Null
   /\ userProgress # Null
   /\ inflight = EmptyBag) =>
    CompletedSet(userProgress) = serverSteps

\* C24: on a loaded roadmap with no local record, a toggleStepCompletion(s,
\* true) that succeeds leaves a local record in which s is completed and
\* progress_percentage is that of one completed step.
C24_FirstToggleCreatesProgress ==
  [][(/\ lastEvent'.kind = "ok"
      /\ route = "detail"
      /\ roadmap # Null
      /\ userProgress = Null
      /\ \E req \in BagToSet(inflight) :
            /\ inflight' = inflight (-) SetToBag({req})
            /\ req.stepId = lastEvent'.stepId
            /\ req.completed)
     => /\ userProgress' # Null
        /\ isStepCompleted(userProgress', lastEvent'.stepId)
        /\ userProgress'.progress_percentage =
             Percentage(1, Len(roadmap.steps))]_vars

\* The dashboard is rendered: its load has ended and it has a user.
DashboardRendered ==
  Shown("dashboard") /\ ~effect /\ ~dashLoading /\ dashUser # Null

\* The records of the dashboard whose progress_percentage satisfies Test.
RecordsWith(Test(_)) ==
  {i \in DOMAIN dashProgress : Test(dashProgress[i].progress_percentage)}

\* C25: on the rendered dashboard total is the number of roadmaps fetched
\* for the user's stream, started the number of records with a percentage
\* above 0, completed the number of records at 100, and each card shows the
\* percentage of the record of its roadmap, or 0 when there is none.
C25_DashboardSummary ==
  DashboardRendered =>
    /\ lastEvent.kind = "initializeData" =>
         statTotal = Len(ServerRoadmaps(Get(dashUser, "selected_stream")))
    /\ statTotal = Cardinality(DOMAIN dashRoadmaps)
    /\ statStarted =
         Cardinality(RecordsWith(LAMBDA x : x \in {Number(50), Number(100)}))
    /\ statCompleted = Cardinality(RecordsWith(LAMBDA x : x = Number(100)))
    /\ \A i \in DOMAIN dashRoadmaps :
         LET id == dashRoadmaps[i].id
             matching == {j \in DOMAIN dashProgress :
                            dashProgress[j].career_id = id}
         IN  /\ matching = {} => getProgressForRoadmap(id) = Number(0)
             /\ \A j \in matching :
                  getProgressForRoadmap(id) =
                    dashProgress[j].progress_percentage

\* The dashboard shows two roadmaps, one with a record at 50 that is not the
\* first of the list and one without a record.
C25_Witness ==
  /\ DashboardRendered
  /\ lastEvent.kind = "initializeData"
  /\ statTotal = 2
  /\ Len(dashProgress) = 2
  /\ dashProgress[1].career_id = "c2"
  /\ dashProgress[1].progress_percentage = Number(50)
  /\ dashProgress[2].career_id = "c3"
  /\ dashProgress[2].progress_percentage = Number(100)
  /\ getProgressForRoadmap("c1") = Number(0)
  /\ getProgressForRoadmap("c2") = Number(50)

\* C30: on the rendered dashboard, after a load whose two fetches succeeded,
\* completed <= started <= total.
C30_StatsOrdered ==
  (DashboardRendered /\ lastEvent.kind = "initializeData") =>
    /\ statCompleted <= statStarted
    /\ statStarted <= statTotal

\* The Credential Store holds the token and the user together or neither.
StoreConsistent == (auth_token # NoValue) <=> (user_data # NoText)

\* No request of any operation is awaiting its response.
NothingInFlight == net = EmptyBag /\ inflight = EmptyBag

\* C26: a step of the session that starts with auth_token present if and
\* only if user_data is, and after which no operation is in flight, ends with
\* auth_token present if and only if user_data is.
C26_TokenIffUser ==
  [][(stack # <<>> /\ StoreConsistent /\ NothingInFlight') =>
       StoreConsistent']_vars

\* C27: whatever the Credential Store holds, the redirects that the screens
\* make as they mount come to an end: from some point on no screen has an
\* effect left to run.
C27_RedirectsSettle == <>[](~effect)

\* C28: the selected_stream written to the cached user by a successful
\* stream update is the stream in the body of its request, whatever is
\* selected on the screen when the response arrives.
C28_WrittenStreamIsSentStream ==
  [][(lastEvent'.kind = "handleContinueOk" /\ user_data # NoText) =>
       \E req \in BagToSet(net) :
         /\ req.op = "stream"
         /\ net' = net (-) SetToBag({req})
         /\ Get(Parse(user_data'), "selected_stream") = req.body.stream]_vars

\* A stream update for Science has ended while Arts was selected on the
\* screen, and the cached user has Science.
C28_Witness ==
  /\ lastEvent.kind = "handleContinueOk"
  /\ lastEvent.stepId = "Arts"
  /\ Shown("dashboard")
  /\ user_data # NoText
  /\ Get(Parse(user_data), "selected_stream") = "Science"

\* The number of requests of an operation that await their response.
RequestsOf(op) ==
  LET reqs == {r \in BagToSet(net) : r.op = op}
  IN  IF reqs = {} THEN 0
      ELSE BagCardinality([r \in reqs |-> CopiesIn(r, net)])

\* C29: at most one login request, one register request and one stream
\* update request is in flight at any time.
C29_OneRequestPerOperation ==
  \A op \in {"login", "register", "stream"} : RequestsOf(op) <= 1

=============================================================================
